---- MODULE Spec2Model ----
(***************************************************************************)
(* MediTrust, meditrust-lite/src/app/utils/contractUtils.js.               *)
(*                                                                         *)
(* The module keeps one global, contractAddress, persists it under one     *)
(* localStorage key, and exports seven asynchronous record operations that *)
(* each run  getProviderAndSigner -> getContract -> contract.<method>      *)
(* (-> tx.wait() for the writes) inside a try/catch that logs and          *)
(* rethrows.  Every `await` of the source is a position of a call here, so *)
(* that setContractAddress / initContractAddress can run between any two   *)
(* resumptions of a call, as the JavaScript event loop allows.             *)
(***************************************************************************)
EXTENDS Integers, Sequences, FiniteSets, TLC

\* ------------------------------------------------------------------ bounds
\* Number of record operations that may be in flight at the same time.
MaxCalls == 1
\* Longest sequence of records the contract returns to a list query.
MaxRecords == 2

Procs == 1..MaxCalls

\* ------------------------------------------------- wide integers and Number
\* A contract integer (uint256 in the ABI) reaches the module either as a
\* plain JavaScript number or as a wide integer object.  Values are kept as
\* two limbs, value = hi * Base + lo, so that values around 2^53 fit.
Base == 134217728

\* 2^53 = DoubleLimbs * Base: from here on a double no longer holds every
\* integer (Number.MAX_SAFE_INTEGER + 1).
DoubleLimbs == 67108864

Wide(h, l) == [type |-> "BigNumber", hi |-> h, lo |-> l]

Plain(h, l) == [type |-> "number", hi |-> h, lo |-> l]

\* The integer a value stands for, as limbs (its type put aside).
Magnitude(v) == <<v.hi, v.lo>>

\* Round an integer in [2^53, 2^54) to the nearest double, ties to even:
\* doubles are the even integers there.
RoundToDouble(h, l) ==
    IF l % 2 = 0 THEN Plain(h, l)
    ELSE IF ((l - 1) \div 2) % 2 = 0 THEN Plain(h, l - 1)
    ELSE IF l + 1 = Base THEN Plain(h + 1, 0)
    ELSE Plain(h, l + 1)

\* A mutant of Number: the value is handed on as it came.
NumberPassThrough(v) == v

\* Number(x) of lines 167, 169, 191, 193, 216, 218: a plain number is
\* returned as it is; a wide integer is converted through its decimal string
\* to the nearest double.
Number(v) ==
    IF v.type = "number" THEN v
    ELSE IF v.hi < DoubleLimbs THEN Plain(v.hi, v.lo)
    ELSE RoundToDouble(v.hi, v.lo)

\* ----------------------------------------------------- the external contract
\* Records the contract may return (struct of MediTrust.sol seen through the
\* ABI): small and wide timestamps and sizes, exact and inexact as doubles.
RecordXray ==
    [ipfsHash |-> "Qm123", owner |-> "0xAlice", timestamp |-> Wide(0, 1000),
     recordType |-> "xray", size |-> Wide(0, 2048)]

RecordMri ==
    [ipfsHash |-> "Qm456", owner |-> "0xBob", timestamp |-> Plain(0, 1000),
     recordType |-> "mri", size |-> Wide(DoubleLimbs, 1)]

RecordScan ==
    [ipfsHash |-> "Qm789", owner |-> "0xAlice", timestamp |-> Wide(DoubleLimbs, 3),
     recordType |-> "scan", size |-> Wide(12, 7)]

ChainRecords == {RecordXray, RecordMri, RecordScan}

\* What the contract deployed at an address holds: the records it returns
\* to the caller's queries.
StoredAt(address) ==
    IF address = "0xABC" THEN <<RecordXray, RecordMri>> ELSE <<RecordScan>>

\* Sequences of records of length at most n.
RECURSIVE SeqsUpTo(_)
SeqsUpTo(n) ==
    IF n = 0 THEN {<< >>}
    ELSE LET shorter == SeqsUpTo(n - 1)
         IN  shorter \cup { Append(s, r) : s \in {t \in shorter : Len(t) = n - 1},
                                           r \in ChainRecords }

RecordLists == SeqsUpTo(MaxRecords)

\* Transactions the contract hands back for a submitted write.
TxHashes == {"0xtx1", "0xtx2"}

\* ------------------------------------------------------------------ errors
ErrNoMetaMask == "MetaMask is not installed. Please install MetaMask to use this application."

ErrNoAddress == "Contract address not set. Please deploy the contract first."

\* `window.ethereum` evaluated where no window exists (server-side render).
ErrNoWindow == "ReferenceError: window is not defined"

\* What the wallet may reject eth_requestAccounts with.
WalletErrors == {"User rejected the request.", "Request of type 'wallet_requestPermissions' already pending."}

\* What a contract method call may reject with.
CallErrors == {"execution reverted"}

\* What tx.wait() may reject with.
WaitErrors == {"transaction failed"}

\* ------------------------------------------------------------------- state
\* Addresses setContractAddress is called with; "" is the empty string.
Addresses == {"", "0xABC"}

\* Values of process.env.NEXT_PUBLIC_CONTRACT_ADDRESS; "" stands for unset
\* (line 5 turns undefined into '').
EnvAddresses == {"", "0xENV"}

\* localStorage.getItem of a key that was never set.
NoItem == "<null>"

WriteOps == {"addRecord", "grantAccess", "revokeAccess"}

ReadOps == {"hasAccess", "getRecord", "getMyRecords", "getAccessibleRecords"}

Ops == WriteOps \cup ReadOps

\* Not read (a history field outside the interval it is kept for).
Unread == "<unread>"

NoValue == [kind |-> "none"]

NoContract == [built |-> FALSE, address |-> Unread, signer |-> FALSE]

NoOutcome == [status |-> "pending", error |-> "", value |-> NoValue]

NoLog == <<"", "">>

\* The activation of one record operation.  pc is the `await` it is
\* suspended at; signer, contract and tx are its block-scoped constants;
\* the other fields record what the call did.
IdleCall ==
    [pc |-> "idle", op |-> "none", signer |-> FALSE, contract |-> NoContract,
     tx |-> NoValue, outcome |-> NoOutcome, logged |-> NoLog, thrown |-> "",
     requests |-> 0, invocations |-> 0, waited |-> "no",
     callUnset |-> FALSE, stillUnset |-> FALSE, addrAtPrompt |-> Unread]

NoTrip == [addr |-> Unread, browser |-> FALSE]

FreshHistory == [lastOp |-> "load", setInSession |-> FALSE, lastSet |-> NoTrip, carried |-> NoTrip]

NoShape == [op |-> "none", input |-> << >>, index |-> 0, output |-> NoValue]

VARIABLES
    contractAddress,  \* the module's global (line 5)
    localStorage,     \* the item under 'mediTrustContractAddress', or NoItem
    envAddress,       \* process.env.NEXT_PUBLIC_CONTRACT_ADDRESS of the build
    hasWindow,        \* typeof window !== 'undefined' in this session
    ethereum,         \* window.ethereum is present (wallet extension)
    calls,            \* the record operations in flight, one activation each
    hist,             \* history of the address operations (SpecAddress)
    shaped            \* a contract response and its shaped result (SpecShape)

globals == <<contractAddress, localStorage, envAddress, hasWindow, ethereum>>

vars == <<globals, calls, hist, shaped>>

\* State after the module is evaluated (line 5), in some session, for some
\* build: no call in flight, nothing persisted yet.
Loaded ==
    /\ envAddress \in EnvAddresses
    /\ contractAddress = envAddress
    /\ localStorage = NoItem
    /\ hasWindow \in BOOLEAN
    /\ ethereum \in BOOLEAN
    /\ ethereum => hasWindow
    /\ calls = [p \in Procs |-> IdleCall]
    /\ hist = FreshHistory

Init == Loaded /\ shaped = NoShape

\* ------------------------------------------------------- pure parts of the code
\* getProviderAndSigner up to its await (lines 12-17): `window.ethereum` is
\* evaluated, then the wallet is asked for the accounts.
RequestAccounts ==
    IF ~hasWindow THEN [sent |-> FALSE, error |-> ErrNoWindow]
    ELSE IF ~ethereum THEN [sent |-> FALSE, error |-> ErrNoMetaMask]
    ELSE [sent |-> TRUE, error |-> ""]

\* A mutant of getContract: the check of the address is missing.
GetContractUnchecked(address, sgn) ==
    [ok |-> TRUE, error |-> "",
     contract |-> [built |-> TRUE, address |-> address, signer |-> sgn]]

\* A mutant of getContract: the handle is bound to the build's default
\* address instead of the global.
GetContractDefault(address, sgn) ==
    IF address = ""
    THEN [ok |-> FALSE, error |-> ErrNoAddress, contract |-> NoContract]
    ELSE [ok |-> TRUE, error |-> "",
          contract |-> [built |-> TRUE, address |-> envAddress, signer |-> sgn]]

\* getContract (lines 30-42): throws on an empty address, else binds a handle
\* to the address and the signer it is given.
GetContract(address, sgn) ==
    IF address = ""
    THEN [ok |-> FALSE, error |-> ErrNoAddress, contract |-> NoContract]
    ELSE [ok |-> TRUE, error |-> "",
          contract |-> [built |-> TRUE, address |-> address, signer |-> sgn]]

\* The message each catch block logs before it rethrows.
ErrorLabel(o) ==
    CASE o = "addRecord" -> "Error adding record to blockchain:"
      [] o = "grantAccess" -> "Error granting access:"
      [] o = "revokeAccess" -> "Error revoking access:"
      [] o = "hasAccess" -> "Error checking access:"
      [] o = "getRecord" -> "Error getting record:"
      [] o = "getMyRecords" -> "Error getting my records:"
      [] o = "getAccessibleRecords" -> "Error getting accessible records:"

\* A mutant of the catch blocks: a new error made of the label is thrown.
CatchWrapped(o, e) == [logged |-> <<ErrorLabel(o), e>>, rethrown |-> ErrorLabel(o)]

\* catch (error) { console.error(label, error); throw error; }
Catch(o, e) == [logged |-> <<ErrorLabel(o), e>>, rethrown |-> e]

\* A mutant of the catch blocks: the error is logged and not rethrown, so
\* that the promise resolves with undefined.
RejectedSwallowed(c, e) ==
    [c EXCEPT !.pc = "done", !.thrown = e, !.addrAtPrompt = Unread,
              !.logged = <<ErrorLabel(c.op), e>>,
              !.outcome = [status |-> "resolved", error |-> "", value |-> NoValue]]

\* A call whose try block threw e: it is over, its promise rejected with what
\* the catch block rethrew.
Rejected(c, e) ==
    [c EXCEPT !.pc = "done", !.thrown = e, !.addrAtPrompt = Unread,
              !.logged = Catch(c.op, e).logged,
              !.outcome = [status |-> "rejected", error |-> Catch(c.op, e).rethrown,
                           value |-> NoValue]]

\* A call that returned v.
Resolved(c, v) ==
    [c EXCEPT !.pc = "done", !.outcome = [status |-> "resolved", error |-> "", value |-> v]]

\* A mutant of the writes: the receipt is returned.
WriteResultReceipt(t, receipt) == receipt

\* What a write returns (lines 84, 105, 126): the transaction the contract
\* method resolved with; the receipt tx.wait() resolved with is dropped.
WriteResult(t, receipt) == t

\* The object getRecord returns (lines 164-170).
RecordResult(record) ==
    [ipfsHash |-> record.ipfsHash,
     owner |-> record.owner,
     timestamp |-> Number(record.timestamp),
     recordType |-> record.recordType,
     size |-> Number(record.size)]

\* A mutant of getMyRecords: ids count from 1.
MyRecordsResultOneBased(records) ==
    [i \in 1..Len(records) |->
        [id |-> i,
         ipfsHash |-> records[i].ipfsHash,
         timestamp |-> Number(records[i].timestamp),
         recordType |-> records[i].recordType,
         size |-> Number(records[i].size)]]

\* records.map of getMyRecords (lines 188-194); JavaScript indexes from 0.
MyRecordsResult(records) ==
    [i \in 1..Len(records) |->
        [id |-> i - 1,
         ipfsHash |-> records[i].ipfsHash,
         timestamp |-> Number(records[i].timestamp),
         recordType |-> records[i].recordType,
         size |-> Number(records[i].size)]]

\* records.map of getAccessibleRecords (lines 212-219).
AccessibleRecordsResult(records) ==
    [i \in 1..Len(records) |->
        [id |-> i - 1,
         ipfsHash |-> records[i].ipfsHash,
         owner |-> records[i].owner,
         timestamp |-> Number(records[i].timestamp),
         recordType |-> records[i].recordType,
         size |-> Number(records[i].size)]]

InFlight(c) == c.pc \notin {"idle", "done"}

\* ---------------------------------------------------------- record operations
\* A mutant of the record operations: the signer and the handle of the
\* slot's earlier call are kept (a cached connection).
BeginCached(p, o) ==
    /\ ~InFlight(calls[p])
    /\ LET fresh == [IdleCall EXCEPT !.op = o,
                                     !.signer = calls[p].signer,
                                     !.contract = calls[p].contract,
                                     !.callUnset = (contractAddress = ""),
                                     !.stillUnset = (contractAddress = "")]
           r == RequestAccounts
       IN  calls' = [calls EXCEPT ![p] =
                        IF r.sent
                        THEN [fresh EXCEPT !.pc = "awaitAccounts", !.requests = 1]
                        ELSE Rejected(fresh, r.error)]
    /\ UNCHANGED <<globals, hist, shaped>>

\* The call of a record operation, up to its first suspension: the try block
\* is entered and getProviderAndSigner runs to its await.  When it throws,
\* the rejection reaches the catch block without reading any state, so the
\* call is over in this step.
Begin(p, o) ==
    /\ ~InFlight(calls[p])
    /\ LET fresh == [IdleCall EXCEPT !.op = o,
                                     !.callUnset = (contractAddress = ""),
                                     !.stillUnset = (contractAddress = "")]
           r == RequestAccounts
       IN  calls' = [calls EXCEPT ![p] =
                        IF r.sent
                        THEN [fresh EXCEPT !.pc = "awaitAccounts", !.requests = 1]
                        ELSE Rejected(fresh, r.error)]
    /\ UNCHANGED <<globals, hist, shaped>>

addRecord(p) == Begin(p, "addRecord")

grantAccess(p) == Begin(p, "grantAccess")

revokeAccess(p) == Begin(p, "revokeAccess")

hasAccess(p) == Begin(p, "hasAccess")

getRecord(p) == Begin(p, "getRecord")

getMyRecords(p) == Begin(p, "getMyRecords")

getAccessibleRecords(p) == Begin(p, "getAccessibleRecords")

\* The wallet accepts: getProviderAndSigner resumes (lines 19-22), makes the
\* provider and the signer and returns them.
AccountsResolved(p) ==
    /\ calls[p].pc = "awaitAccounts"
    /\ calls' = [calls EXCEPT ![p] = [@ EXCEPT !.pc = "awaitSigner", !.signer = TRUE,
                                               !.addrAtPrompt = contractAddress]]
    /\ UNCHANGED <<globals, hist, shaped>>

\* The wallet rejects the request with e: getProviderAndSigner rejects with
\* e, and so does the operation's await of it.
AccountsRejected(p, e) ==
    /\ calls[p].pc = "awaitAccounts"
    /\ calls' = [calls EXCEPT ![p] = Rejected(@, e)]
    /\ UNCHANGED <<globals, hist, shaped>>

\* The operation resumes with the signer and calls getContract(signer),
\* which reads contractAddress now.
BuildContract(p) ==
    /\ calls[p].pc = "awaitSigner"
    /\ LET r == GetContract(contractAddress, calls[p].signer)
       IN  calls' = [calls EXCEPT ![p] =
                        IF r.ok
                        THEN [@ EXCEPT !.pc = "awaitContract", !.contract = r.contract,
                                       !.addrAtPrompt = Unread]
                        ELSE Rejected(@, r.error)]
    /\ UNCHANGED <<globals, hist, shaped>>

\* The operation resumes with the handle and invokes its contract method.
Invoke(p) ==
    /\ calls[p].pc = "awaitContract"
    /\ calls' = [calls EXCEPT ![p] = [@ EXCEPT !.pc = "awaitCall",
                                               !.invocations = @ + 1]]
    /\ UNCHANGED <<globals, hist, shaped>>

\* The contract method rejects (revert, network failure, user denies the
\* transaction).
CallRejected(p, e) ==
    /\ calls[p].pc = "awaitCall"
    /\ calls' = [calls EXCEPT ![p] = Rejected(@, e)]
    /\ UNCHANGED <<globals, hist, shaped>>

\* A write's method resolves with the submitted transaction; tx.wait() is
\* called (lines 81-82, 102-103, 123-124).
WriteSubmitted(p, h) ==
    /\ calls[p].pc = "awaitCall"
    /\ calls[p].op \in WriteOps
    /\ calls' = [calls EXCEPT ![p] = [@ EXCEPT !.pc = "awaitWait", !.waited = "pending",
                                               !.tx = [kind |-> "tx", hash |-> h]]]
    /\ UNCHANGED <<globals, hist, shaped>>

\* tx.wait() resolves with the receipt; the write returns.
WaitResolved(p) ==
    /\ calls[p].pc = "awaitWait"
    /\ LET receipt == [kind |-> "receipt", hash |-> calls[p].tx.hash]
       IN  calls' = [calls EXCEPT ![p] =
                        Resolved([@ EXCEPT !.waited = "resolved"],
                                 WriteResult(calls[p].tx, receipt))]
    /\ UNCHANGED <<globals, hist, shaped>>

\* tx.wait() rejects.
WaitRejected(p, e) ==
    /\ calls[p].pc = "awaitWait"
    /\ calls' = [calls EXCEPT ![p] = Rejected([@ EXCEPT !.waited = "rejected"], e)]
    /\ UNCHANGED <<globals, hist, shaped>>

\* contract.hasAccess resolves (lines 144-145).
hasAccessResolved(p, b) ==
    /\ calls[p].pc = "awaitCall"
    /\ calls[p].op = "hasAccess"
    /\ calls' = [calls EXCEPT ![p] = Resolved(@, [kind |-> "bool", bool |-> b])]
    /\ UNCHANGED <<globals, hist, shaped>>

\* contract.getRecord resolves (lines 162-170).
getRecordResolved(p, i) ==
    /\ calls[p].pc = "awaitCall"
    /\ calls[p].op = "getRecord"
    /\ i \in 1..Len(StoredAt(calls[p].contract.address))
    /\ calls' = [calls EXCEPT ![p] =
                    Resolved(@, [kind |-> "record",
                                 record |-> RecordResult(StoredAt(calls[p].contract.address)[i])])]
    /\ UNCHANGED <<globals, hist, shaped>>

\* contract.getMyRecords resolves (lines 186-194).
getMyRecordsResolved(p) ==
    /\ calls[p].pc = "awaitCall"
    /\ calls[p].op = "getMyRecords"
    /\ calls' = [calls EXCEPT ![p] =
                    Resolved(@, [kind |-> "list",
                                 items |-> MyRecordsResult(StoredAt(calls[p].contract.address))])]
    /\ UNCHANGED <<globals, hist, shaped>>

\* contract.getAccessibleRecords resolves (lines 210-219).
getAccessibleRecordsResolved(p) ==
    /\ calls[p].pc = "awaitCall"
    /\ calls[p].op = "getAccessibleRecords"
    /\ calls' = [calls EXCEPT ![p] =
                    Resolved(@, [kind |-> "list",
                                 items |-> AccessibleRecordsResult(StoredAt(calls[p].contract.address))])]
    /\ UNCHANGED <<globals, hist, shaped>>

\* --------------------------------------------------------- address operations
\* History kept per call in flight: the address has been empty ever since
\* the operation was called.
NoteAddress(a) ==
    [p \in Procs |->
        IF InFlight(calls[p])
        THEN [calls[p] EXCEPT !.stillUnset = @ /\ a = ""]
        ELSE calls[p]]

\* setContractAddress (lines 48-55).
setContractAddress(address) ==
    /\ contractAddress' = address
    /\ localStorage' = IF hasWindow THEN address ELSE localStorage
    /\ calls' = NoteAddress(address)
    /\ UNCHANGED <<envAddress, hasWindow, ethereum, shaped>>

\* A mutant of initContractAddress: nothing is restored.
RestoredAddressIgnored == contractAddress

\* A mutant of initContractAddress: `if (savedAddress)` is missing.
RestoredAddressUnchecked == IF hasWindow THEN localStorage ELSE contractAddress

\* The address initContractAddress leaves in the global (lines 61-66).
RestoredAddress ==
    IF hasWindow /\ localStorage # NoItem /\ localStorage # ""
    THEN localStorage
    ELSE contractAddress

\* initContractAddress (lines 60-67).
initContractAddress ==
    /\ contractAddress' = RestoredAddress
    /\ calls' = NoteAddress(RestoredAddress)
    /\ UNCHANGED <<localStorage, envAddress, hasWindow, ethereum, shaped>>

\* The page is loaded anew (or the server process restarted): the module is
\* evaluated again (line 5), whatever was in flight is gone, localStorage
\* stays.
NewSession ==
    /\ contractAddress' = envAddress
    /\ hasWindow' \in BOOLEAN
    /\ ethereum' \in BOOLEAN
    /\ ethereum' => hasWindow'
    /\ calls' = [p \in Procs |-> IdleCall]
    /\ UNCHANGED <<localStorage, envAddress, shaped>>

\* --------------------------------------------------------------- Spec
Next ==
    \/ \E p \in Procs : addRecord(p)
    \/ \E p \in Procs : grantAccess(p)
    \/ \E p \in Procs : revokeAccess(p)
    \/ \E p \in Procs : hasAccess(p)
    \/ \E p \in Procs : getRecord(p)
    \/ \E p \in Procs : getMyRecords(p)
    \/ \E p \in Procs : getAccessibleRecords(p)
    \/ \E p \in Procs : AccountsResolved(p)
    \/ \E p \in Procs, e \in WalletErrors : AccountsRejected(p, e)
    \/ \E p \in Procs : BuildContract(p)
    \/ \E p \in Procs : Invoke(p)
    \/ \E p \in Procs, e \in CallErrors : CallRejected(p, e)
    \/ \E p \in Procs, h \in TxHashes : WriteSubmitted(p, h)
    \/ \E p \in Procs : WaitResolved(p)
    \/ \E p \in Procs, e \in WaitErrors : WaitRejected(p, e)
    \/ \E p \in Procs, b \in BOOLEAN : hasAccessResolved(p, b)
    \/ \E p \in Procs, i \in 1..MaxRecords : getRecordResolved(p, i)
    \/ \E p \in Procs : getMyRecordsResolved(p)
    \/ \E p \in Procs : getAccessibleRecordsResolved(p)
    \/ \E a \in Addresses : setContractAddress(a) /\ UNCHANGED hist
    \/ initContractAddress /\ UNCHANGED hist
    \/ NewSession /\ UNCHANGED hist

Spec == Init /\ [][Next]_vars

\* ------------------------------------------------------- SpecAddress
\* The address operations alone, with their history: which of them ran last
\* in this session, whether setContractAddress ran in it, and the last
\* setContractAddress call of this session and of the session before.
SetTracked(a) ==
    /\ setContractAddress(a)
    /\ hist' = [hist EXCEPT !.lastOp = "set", !.setInSession = TRUE,
                            !.lastSet = [addr |-> a, browser |-> hasWindow]]

InitTracked ==
    /\ initContractAddress
    /\ hist' = [hist EXCEPT !.lastOp = "restore"]

NewSessionTracked ==
    /\ NewSession
    /\ hist' = [FreshHistory EXCEPT !.carried = hist.lastSet]

NextAddress ==
    \/ \E a \in Addresses : SetTracked(a)
    \/ InitTracked
    \/ NewSessionTracked

SpecAddress == Init /\ [][NextAddress]_vars

\* --------------------------------------------------------- SpecShape
\* The shaping of a contract response, for every response within the bounds.
InitShape ==
    /\ Loaded
    /\ shaped \in {[NoShape EXCEPT !.input = records] : records \in RecordLists}

ShapeGetRecord(i) ==
    /\ i \in 1..Len(shaped.input)
    /\ shaped' = [shaped EXCEPT !.op = "getRecord", !.index = i,
                                !.output = [kind |-> "record",
                                            record |-> RecordResult(shaped.input[i])]]
    /\ UNCHANGED <<globals, calls, hist>>

ShapeGetMyRecords ==
    /\ shaped' = [shaped EXCEPT !.op = "getMyRecords", !.index = 0,
                                !.output = [kind |-> "list",
                                            items |-> MyRecordsResult(shaped.input)]]
    /\ UNCHANGED <<globals, calls, hist>>

ShapeGetAccessibleRecords ==
    /\ shaped' = [shaped EXCEPT !.op = "getAccessibleRecords", !.index = 0,
                                !.output = [kind |-> "list",
                                            items |-> AccessibleRecordsResult(shaped.input)]]
    /\ UNCHANGED <<globals, calls, hist>>

NextShape ==
    \/ \E i \in 1..MaxRecords : ShapeGetRecord(i)
    \/ ShapeGetMyRecords
    \/ ShapeGetAccessibleRecords

SpecShape == InitShape /\ [][NextShape]_vars

\* ================================================================ claims
Call(p) == calls[p]

RejectedWith(c, e) == c.outcome.status = "rejected" /\ c.outcome.error = e

\* ----------------------------------------------------------------- C1
\* C1 as stated (in a browser session): a record operation called while the
\* contract address is unset sends no wallet request, invokes no contract
\* method, and fails with the configuration error, whatever the wallet state.
C1_UnsetFailsBeforeAnyRequest ==
    \A p \in Procs :
        (hasWindow /\ Call(p).callUnset) =>
            /\ Call(p).requests = 0
            /\ Call(p).invocations = 0
            /\ Call(p).pc = "done" => RejectedWith(Call(p), ErrNoAddress)

\* C1 amended: a record operation called while the address is unset, and
\* during which the address is not set, builds no handle, invokes no contract
\* method and fails: with the configuration error once the wallet has
\* accepted the prompt (the request is sent before the address is read), with
\* the wallet's error when the wallet rejects, with the environment error
\* when there is no wallet.
C1_UnsetThroughoutNeverInvokes ==
    \A p \in Procs :
        Call(p).stillUnset =>
            /\ Call(p).invocations = 0
            /\ ~Call(p).contract.built
            /\ Call(p).pc = "done" =>
                /\ Call(p).outcome.status = "rejected"
                /\ Call(p).signer => Call(p).outcome.error = ErrNoAddress
                /\ (~Call(p).signer /\ Call(p).requests = 1) =>
                        Call(p).outcome.error \in WalletErrors
                /\ Call(p).requests = 0 =>
                        Call(p).outcome.error \in {ErrNoMetaMask, ErrNoWindow}

\* An operation called while the address is unset has sent the wallet
\* request, got the signer, and failed with the configuration error.
C1_Witness ==
    \E p \in Procs :
        /\ Call(p).stillUnset
        /\ Call(p).pc = "done"
        /\ Call(p).requests = 1
        /\ Call(p).signer
        /\ RejectedWith(Call(p), ErrNoAddress)

\* ----------------------------------------------------------------- C2
\* The wallet rejected this call's request: it was sent and no signer came.
WalletRejected(c) == c.pc = "done" /\ c.requests = 1 /\ ~c.signer

\* C2: when the wallet rejects the connection prompt with E, the operation
\* waiting on it rejects with exactly E, builds no handle and invokes no
\* contract method.
C2_WalletRejectionSurfaces ==
    \A p \in Procs :
        WalletRejected(Call(p)) =>
            /\ Call(p).thrown \in WalletErrors
            /\ RejectedWith(Call(p), Call(p).thrown)
            /\ ~Call(p).contract.built
            /\ Call(p).invocations = 0

C2_Witness ==
    \E p \in Procs :
        /\ WalletRejected(Call(p))
        /\ Call(p).op = "hasAccess"
        /\ RejectedWith(Call(p), "User rejected the request.")

\* ----------------------------------------------------------------- C3
\* C3: a contract method is invoked only by a call that obtained a signer
\* from its own wallet request and built its handle on a non-empty address;
\* a call that waits on its prompt holds no signer and no handle yet, so
\* neither is taken over from an earlier call.
C3_InvokeNeedsSignerAndAddress ==
    \A p \in Procs :
        /\ Call(p).invocations > 0 =>
              /\ Call(p).invocations = 1
              /\ Call(p).requests = 1
              /\ Call(p).signer
              /\ Call(p).contract.built
              /\ Call(p).contract.signer
              /\ Call(p).contract.address # ""
              /\ Call(p).contract.address # Unread
        /\ Call(p).pc = "awaitAccounts" => ~Call(p).signer /\ ~Call(p).contract.built
        /\ Call(p).pc = "awaitSigner" => Call(p).signer /\ ~Call(p).contract.built

C3_Witness ==
    \E p \in Procs :
        /\ Call(p).op = "getMyRecords"
        /\ Call(p).pc = "awaitCall"
        /\ Call(p).invocations = 1
        /\ Call(p).contract.address = "0xABC"

\* ----------------------------------------------------------------- C4
\* restoreAddress has run in a fresh session (no setAddress in it) that
\* follows a session in which setAddress ran.
RoundTripDone ==
    /\ hist.lastOp = "restore"
    /\ ~hist.setInSession
    /\ hist.carried # NoTrip

\* C4 as stated (both sessions in a browser): for every address a,
\* setAddress(a) in one session and restoreAddress in a fresh session leave
\* the in-memory address equal to a.
C4_RoundTripEveryAddress ==
    (RoundTripDone /\ hist.carried.browser /\ hasWindow) =>
        contractAddress = hist.carried.addr

\* C4 amended: for every non-empty address a, setAddress(a) in a browser
\* session and restoreAddress in a fresh browser session leave the in-memory
\* address equal to a; for the empty address the fresh session keeps the
\* environment default.
C4_RoundTripNonEmpty ==
    (RoundTripDone /\ hist.carried.browser /\ hasWindow) =>
        IF hist.carried.addr # ""
        THEN contractAddress = hist.carried.addr
        ELSE contractAddress = envAddress

C4_Witness ==
    /\ RoundTripDone
    /\ hist.carried.browser
    /\ hasWindow
    /\ hist.carried.addr = "0xABC"
    /\ envAddress = "0xENV"
    /\ contractAddress = "0xABC"

\* ----------------------------------------------------------------- C9
\* A non-empty value is persisted where this session can read it.
HasPersisted == hasWindow /\ localStorage # NoItem /\ localStorage # ""

\* C9 as stated (in a browser session): after restoreAddress the in-memory
\* address is the persisted value when a non-empty one exists, and the
\* environment default otherwise.
C9_DefaultWhenNothingPersisted ==
    (hasWindow /\ hist.lastOp = "restore") =>
        IF HasPersisted
        THEN contractAddress = localStorage
        ELSE contractAddress = envAddress

\* C9 amended: after restoreAddress the in-memory address is the persisted
\* value when a non-empty one exists; otherwise it is left as it was: the
\* environment default when setAddress has not run in the session, the
\* address last set when it has.
C9_DefaultUnlessSetInSession ==
    hist.lastOp = "restore" =>
        IF HasPersisted
        THEN contractAddress = localStorage
        ELSE IF hist.setInSession
             THEN contractAddress = hist.lastSet.addr
             ELSE contractAddress = envAddress

C9_Witness ==
    /\ hist.lastOp = "restore"
    /\ ~hist.setInSession
    /\ hasWindow
    /\ localStorage \in {NoItem, ""}
    /\ envAddress = "0xENV"
    /\ contractAddress = "0xENV"

\* ----------------------------------------------------------------- C5
IsListQuery == shaped.op \in {"getMyRecords", "getAccessibleRecords"}

\* The double holds this integer exactly: it is at most 2^53.
ExactAsDouble(v) == v.hi < DoubleLimbs \/ (v.hi = DoubleLimbs /\ v.lo = 0)

\* The fields of the i-th element that both list queries copy unchanged,
\* and its id.
CarriesStrings(i) ==
    LET in == shaped.input[i]
        out == shaped.output.items[i]
    IN  /\ out.id = i - 1
        /\ out.ipfsHash = in.ipfsHash
        /\ out.recordType = in.recordType
        /\ DOMAIN out = IF shaped.op = "getMyRecords"
                        THEN {"id", "ipfsHash", "timestamp", "recordType", "size"}
                        ELSE {"id", "ipfsHash", "owner", "timestamp", "recordType", "size"}
        /\ shaped.op = "getAccessibleRecords" => out.owner = in.owner

C8_NumbersArePlain ==
    shaped.op = "getRecord" =>
        LET in == shaped.input[shaped.index]
            out == shaped.output.record
        IN  /\ out.timestamp.type = "number"
            /\ out.size.type = "number"
            /\ out.ipfsHash = in.ipfsHash
            /\ out.owner = in.owner
            /\ out.recordType = in.recordType
            /\ DOMAIN out = {"ipfsHash", "owner", "timestamp", "recordType", "size"}

C8_Witness ==
    /\ shaped.op = "getRecord"
    /\ shaped.input[shaped.index] = RecordScan
    /\ shaped.output.record.timestamp = Plain(DoubleLimbs, 4)
    /\ shaped.output.record.size = Plain(12, 7)

\* ----------------------------------------------------------------- C7
\* C7 as stated: a write resolves only after the confirmation of its
\* transaction has resolved, rejects when the confirmation fails, and
\* resolves with the transaction receipt.
C7_ResolvesWithReceipt ==
    \A p \in Procs :
        Call(p).op \in WriteOps =>
            /\ Call(p).outcome.status = "resolved" =>
                  /\ Call(p).waited = "resolved"
                  /\ Call(p).outcome.value = [kind |-> "receipt", hash |-> Call(p).tx.hash]
            /\ Call(p).waited = "rejected" => Call(p).outcome.status = "rejected"

\* C7 amended: a write resolves only after the confirmation of its
\* transaction has resolved, rejects with the confirmation's error when the
\* confirmation fails, and resolves with the submitted transaction (what the
\* contract method returned), not with the receipt.
C7_ResolvesWithTransactionAfterWait ==
    \A p \in Procs :
        Call(p).op \in WriteOps =>
            /\ Call(p).outcome.status = "resolved" =>
                  /\ Call(p).waited = "resolved"
                  /\ Call(p).invocations = 1
                  /\ Call(p).tx.kind = "tx"
                  /\ Call(p).outcome.value = Call(p).tx
            /\ Call(p).waited = "pending" =>
                  Call(p).outcome.status = "pending" /\ Call(p).pc = "awaitWait"
            /\ Call(p).waited = "rejected" =>
                  /\ Call(p).thrown \in WaitErrors
                  /\ RejectedWith(Call(p), Call(p).thrown)

C7_Witness ==
    \E p \in Procs :
        /\ Call(p).op = "grantAccess"
        /\ Call(p).outcome.status = "resolved"
        /\ Call(p).waited = "resolved"
        /\ Call(p).outcome.value = [kind |-> "tx", hash |-> "0xtx2"]

\* ----------------------------------------------------------------- C6
\* The step makes call p fail: its try block throws.
Fails(p) == calls'[p] # calls[p] /\ calls'[p].thrown # ""

\* The step changes the in-memory address or the persisted one.
GlobalChanges == contractAddress' # contractAddress \/ localStorage' # localStorage

\* C6: a failure ends the one call it happens in, reaches the caller as the
\* error that was raised, after being logged, and changes neither the
\* in-memory address nor the persisted one, nor any other call; nor does any
\* earlier step of the call: a step that changes either address moves no
\* call forward (it is an address operation or a new session).
C6_FailureIsSurfacedAndFramed ==
    [][/\ \A p \in Procs :
             Fails(p) =>
                 /\ calls'[p].pc = "done"
                 /\ calls'[p].outcome = [status |-> "rejected", error |-> calls'[p].thrown,
                                         value |-> NoValue]
                 /\ calls'[p].logged = <<ErrorLabel(calls'[p].op), calls'[p].thrown>>
                 /\ ~GlobalChanges
                 /\ \A q \in Procs \ {p} : calls'[q] = calls[q]
       /\ GlobalChanges =>
             \A p \in Procs :
                 \/ calls'[p] = IdleCall
                 \/ calls'[p] = [calls[p] EXCEPT !.stillUnset = calls'[p].stillUnset]]_vars

C6_Witness ==
    \E p \in Procs :
        /\ Call(p).op = "getRecord"
        /\ RejectedWith(Call(p), "execution reverted")
        /\ Call(p).thrown = "execution reverted"
        /\ contractAddress = "0xABC"
        /\ localStorage = "0xABC"

\* ---------------------------------------------------------------- C10
\* The step in which call p builds its contract handle.
Builds(p) == calls[p].pc = "awaitSigner" /\ calls'[p].contract.built

\* A step of call p, or of anything else while p stays in flight, after p
\* has built its handle.
KeepsRunning(p) == calls[p].contract.built /\ InFlight(calls[p]) /\ InFlight(calls'[p])

\* C10 as stated: the handle is bound to the value the global address had
\* when the wallet prompt resolved, and no later change of the address
\* alters the handle.
C10_BoundWhenPromptResolves ==
    [][\A p \in Procs :
          /\ Builds(p) => calls'[p].contract.address = calls[p].addrAtPrompt
          /\ KeepsRunning(p) => calls'[p].contract = calls[p].contract]_vars

\* C10 amended: the handle is bound to the value the global address has when
\* the operation resumes after the prompt and builds the handle; that is
\* neither the value at the call nor, when the address is changed between the
\* prompt's resolution and the resumption, the value at the resolution; no
\* later change of the address alters the handle.
C10_BoundWhenHandleIsBuilt ==
    [][\A p \in Procs :
          /\ Builds(p) => calls'[p].contract.address = contractAddress
          /\ KeepsRunning(p) => calls'[p].contract = calls[p].contract]_vars

\* A call made while the address was unset runs on a handle bound to the
\* address set during its prompt, while the global has changed again.
C10_Witness ==
    \E p \in Procs :
        /\ Call(p).callUnset
        /\ Call(p).pc = "awaitWait"
        /\ Call(p).contract.address = "0xABC"
        /\ contractAddress = ""

====
